---------------------------- MODULE Spec2Model ----------------------------
(***************************************************************************)
(* Modular reduction over generalized Mersenne moduli, as implemented in   *)
(* src/src/ops/mersenne.rs: the coefficient derivation, the recursive      *)
(* plaintext reduction, the three-pass encrypted reduction (single-term    *)
(* and two-term), the one-pass fast reduction and the modular              *)
(* multiplication built on them.                                           *)
(*                                                                         *)
(* A radix ciphertext is modelled by what it decrypts to: its block count  *)
(* and the plaintext it holds modulo 2^(2 * blocks) (PARAM_MESSAGE_2_      *)
(* CARRY_2: two message bits per block).  Every server-key operation is    *)
(* modelled by its arithmetic on that pair.                                *)
(***************************************************************************)
EXTENDS Integers, FiniteSets, Sequences, TLC

VARIABLES
    p,                \* the modulus the calls are made with
    NB,               \* the const generic NB: residue width in blocks
    overflow_checks,  \* build profile: TRUE when usize arithmetic is checked
    pc,               \* which call has been made / is running
    a, b,             \* plaintexts of the two encrypted residues of a mul_mod call
    x,                \* plaintext of the argument of a reduction call
    res,              \* ciphertext returned by the single-term / fast engine
    res2,             \* ciphertext returned by the two-term engine
    cur,              \* argument of the current mersenne_mod_native frame
    depth,            \* number of mersenne_mod_native frames on the stack
    ret,              \* value returned by mersenne_mod_native
    coeff,            \* result of mersenne_coeff_p
    coeff2            \* result of mersenne_coeff_p2

vars == <<p, NB, overflow_checks, pc, a, b, x, res, res2, cur, depth, ret,
          coeff, coeff2>>

---------------------------------------------------------------------------
(* Bounds of the model. *)

\* moduli 1..MaxP are explored exhaustively
MaxP == 32
\* residue widths MinNB(p) .. MinNB(p) + ExtraNB are explored
ExtraNB == 1
\* recursion depth of mersenne_mod_native that is tracked exactly
MaxDepth == 4
\* reduction inputs of at most this many bits are explored exhaustively
MaxFullBits == 12
\* plaintext arguments 1..MaxNativeX of mersenne_mod_native
MaxNativeX == 70
\* moduli 1..MaxCoeffP are given to the coefficient derivation
MaxCoeffP == 130

(* Program constants. *)

\* message bits per block, the divisor in c_blocks
BitsPerBlock == 2
\* the modulus, width and operands of the repository's tests
TestModulus == 251
TestBlocks == 4
TestX == 249
TestY == 248

---------------------------------------------------------------------------
(* Plain integer helpers. *)

Pow2(k) == 2 ^ k

\* BigInt::bits(): the number of bits of a non-negative integer, 0 for 0
RECURSIVE bits(_)
bits(v) == IF v <= 0 THEN 0 ELSE 1 + bits(v \div 2)

\* helper::bigint_ilog2_ceil: the smallest n with 2^n >= v  (v >= 1)
bigint_ilog2_ceil(v) == IF v <= 1 THEN 0 ELSE bits(v - 1)

\* helper::bigint_ilog2_floor: the largest m with 2^m <= v  (v >= 1);
\* no such m exists for v = 0, see log2_defined
bigint_ilog2_floor(v) == bits(v) - 1

log2_defined(v) == v >= 1

None == [some |-> FALSE, v |-> 0]
Some(m) == [some |-> TRUE, v |-> m]

---------------------------------------------------------------------------
(* Coefficient derivation. *)

\* (n, c) with c = 2^n - p
mersenne_coeff_p(q) ==
    LET n == bigint_ilog2_ceil(q)
    IN  [n |-> n, c |-> Pow2(n) - q]

\* mersenne_coeff_p2 without the early return for a gap of 1
mersenne_coeff_p2_no_early_return(q) ==
    LET n  == bigint_ilog2_ceil(q)
        bb == Pow2(n) - q
    IN  IF ~log2_defined(bb)
        THEN [n |-> n, m |-> None, c |-> 0, defined |-> FALSE]
        ELSE LET m == bigint_ilog2_floor(bb)
             IN  [n |-> n, m |-> Some(m), c |-> bb - Pow2(m), defined |-> TRUE]

\* (n, m, c) with p = 2^n - 2^m - c; `defined` is FALSE when the gap is 0
\* and floor(log2(0)) is asked for
mersenne_coeff_p2(q) ==
    LET n  == bigint_ilog2_ceil(q)
        bb == Pow2(n) - q
    IN  IF bb = 1
        THEN [n |-> n, m |-> None, c |-> 1, defined |-> TRUE]
        ELSE IF ~log2_defined(bb)
        THEN [n |-> n, m |-> None, c |-> 0, defined |-> FALSE]
        ELSE LET m == bigint_ilog2_floor(bb)
             IN  [n |-> n, m |-> Some(m), c |-> bb - Pow2(m), defined |-> TRUE]

\* c_blocks = (c.bits() + 1) / 2
c_blocks_of(c) == (bits(c) + 1) \div BitsPerBlock

---------------------------------------------------------------------------
(* Radix ciphertexts and the server-key operations used by the engine.     *)
(* blocks: block count; val: the plaintext held, < 2^(2*blocks);           *)
(* st: "ok", or "panic" once a checked usize subtraction has underflowed,  *)
(*     or "undefined" when the coefficients were undefined;                *)
(* underflow: some trim amount was negative;                               *)
(* exact: no operation so far has dropped a non-zero bit.                  *)

Width(blocks) == Pow2(BitsPerBlock * blocks)

Ct(blocks, v, st, underflow, exact) ==
    [blocks |-> blocks, val |-> v % Width(blocks), st |-> st,
     underflow |-> underflow,
     exact |-> exact /\ v >= 0 /\ v < Width(blocks)]

NoCt == [blocks |-> 0, val |-> 0, st |-> "none", underflow |-> FALSE, exact |-> TRUE]

UndefinedCt == [blocks |-> 0, val |-> 0, st |-> "undefined", underflow |-> FALSE,
                exact |-> TRUE]

Join(s, t) == IF s = "panic" \/ t = "panic" THEN "panic" ELSE "ok"

\* client_key.encrypt_radix(v, blocks)
encrypt_radix(v, blocks) == Ct(blocks, v, "ok", FALSE, TRUE)

\* extend_radix_with_trivial_zero_blocks_msb(ct, k)
extend_radix_with_trivial_zero_blocks_msb(ct, k) ==
    Ct(ct.blocks + k, ct.val, ct.st, ct.underflow, ct.exact)

\* trim_radix_blocks_msb_assign(ct, amount), amount = len - target computed in
\* usize: a negative amount panics under overflow checks; without them it
\* wraps, and the wrapped truncation length exceeds the block count, which
\* leaves the blocks as they are
trim_radix_blocks_msb(ct, amount) ==
    IF amount < 0
    THEN [ct EXCEPT !.underflow = TRUE,
                    !.st = IF overflow_checks THEN "panic" ELSE @]
    ELSE Ct(ct.blocks - amount, ct.val, ct.st, ct.underflow, ct.exact)

\* scalar_right_shift_parallelized(ct, n)
scalar_right_shift(ct, n) ==
    Ct(ct.blocks, ct.val \div Pow2(n), ct.st, ct.underflow, ct.exact)

\* scalar_left_shift_parallelized(ct, n): bits shifted past the top are lost
scalar_left_shift(ct, n) ==
    LET w == BitsPerBlock * ct.blocks
    IN  IF n >= w
        THEN Ct(ct.blocks, 0, ct.st, ct.underflow, ct.exact /\ ct.val = 0)
        ELSE Ct(ct.blocks, (ct.val % Pow2(w - n)) * Pow2(n), ct.st, ct.underflow,
                ct.exact /\ ct.val < Pow2(w - n))

\* smart_sub_parallelized(l, r): l - r modulo the width of l
smart_sub(l, r) ==
    LET rv == r.val % Width(l.blocks)
    IN  Ct(l.blocks, (l.val - rv) + (IF l.val < rv THEN Width(l.blocks) ELSE 0),
           Join(l.st, r.st), l.underflow \/ r.underflow,
           l.exact /\ r.exact /\ rv = r.val /\ l.val >= rv)

\* smart_scalar_mul_parallelized(ct, s)
smart_scalar_mul(ct, s) ==
    Ct(ct.blocks, ct.val * s, ct.st, ct.underflow, ct.exact)

\* add_parallelized(l, r) / smart_add_assign_parallelized(l, r): blocks are
\* added pairwise, so the sum has the block count of l and the blocks of r
\* beyond it are not used
add(l, r) ==
    LET rv == r.val % Width(l.blocks)
    IN  Ct(l.blocks, l.val + rv, Join(l.st, r.st), l.underflow \/ r.underflow,
           l.exact /\ r.exact /\ rv = r.val)

\* smart_mul_assign_parallelized(l, r): the product modulo the width of l
smart_mul(l, r) ==
    Ct(l.blocks, l.val * r.val, Join(l.st, r.st), l.underflow \/ r.underflow,
       l.exact /\ r.exact)

\* client_key.decrypt_radix
decrypt_radix(ct) == ct.val

---------------------------------------------------------------------------
(* The encrypted reduction engine. *)

\* passes 1 and 2 of mod_mersenne: split xc at bit n, keep a_blocks blocks of
\* the high part and NB blocks of the low part, return c*a + b
mod_mersenne_pass(xc, n, c, a_blocks) ==
    LET a0  == scalar_right_shift(xc, n)
        b0  == smart_sub(xc, scalar_left_shift(a0, n))
        len == xc.blocks
        a1  == trim_radix_blocks_msb(a0, len - a_blocks)
        b1  == trim_radix_blocks_msb(b0, len - NB)
        ca  == smart_scalar_mul(a1, c)
    IN  add(ca, b1)

\* pass 3 of mod_mersenne with the operands of the sum in the order of
\* passes 1 and 2
mod_mersenne_final_pass_ca_first(xc, n, c, a_blocks) ==
    mod_mersenne_pass(xc, n, c, a_blocks)

\* pass 3 of mod_mersenne: as above, but the sum is b + c*a
mod_mersenne_final_pass(xc, n, c, a_blocks) ==
    LET a0  == scalar_right_shift(xc, n)
        b0  == smart_sub(xc, scalar_left_shift(a0, n))
        len == xc.blocks
        a1  == trim_radix_blocks_msb(a0, len - a_blocks)
        b1  == trim_radix_blocks_msb(b0, len - NB)
        ca  == smart_scalar_mul(a1, c)
    IN  add(b1, ca)

\* mod_mersenne without its third pass
mod_mersenne_two_passes(xc, q) ==
    LET co       == mersenne_coeff_p(q)
        c_blocks == c_blocks_of(co.c)
        x0       == extend_radix_with_trivial_zero_blocks_msb(xc, (NB * 2) - xc.blocks)
        x_mod_p  == mod_mersenne_pass(x0, co.n, co.c, NB + c_blocks + 1)
        x_mod_p2 == mod_mersenne_pass(x_mod_p, co.n, co.c, NB + 1)
    IN  trim_radix_blocks_msb(x_mod_p2, x_mod_p2.blocks - NB)

\* the three passes and the final trim to NB blocks
mod_mersenne(xc, q) ==
    LET co       == mersenne_coeff_p(q)
        c_blocks == c_blocks_of(co.c)
        x0       == extend_radix_with_trivial_zero_blocks_msb(xc, (NB * 2) - xc.blocks)
        x_mod_p  == mod_mersenne_pass(x0, co.n, co.c, NB + c_blocks + 1)
        x_mod_p2 == mod_mersenne_pass(x_mod_p, co.n, co.c, NB + 1)
        x_mod_p3 == mod_mersenne_final_pass(x_mod_p2, co.n, co.c, 2 + c_blocks)
    IN  trim_radix_blocks_msb(x_mod_p3, x_mod_p3.blocks - NB)

\* one pass of mod_mersenne2: (a << m) + c*a + b when m is Some, c*a + b
\* otherwise; in all three passes the sum is ca + b
mod_mersenne2_pass(xc, n, m, c, a_blocks) ==
    LET a0  == scalar_right_shift(xc, n)
        b0  == smart_sub(xc, scalar_left_shift(a0, n))
        len == xc.blocks
        a1  == trim_radix_blocks_msb(a0, len - a_blocks)
        b1  == trim_radix_blocks_msb(b0, len - NB)
    IN  IF m.some
        THEN LET ma == scalar_left_shift(a1, m.v)
                 ca == smart_scalar_mul(a1, c)
             IN  add(add(ca, ma), b1)
        ELSE add(smart_scalar_mul(a1, c), b1)

mod_mersenne2(xc, q) ==
    LET co       == mersenne_coeff_p2(q)
        c_blocks == c_blocks_of(co.c)
        x0       == extend_radix_with_trivial_zero_blocks_msb(xc, (NB * 2) - xc.blocks)
        x_mod_p  == mod_mersenne2_pass(x0, co.n, co.m, co.c, NB + c_blocks + 1)
        x_mod_p2 == mod_mersenne2_pass(x_mod_p, co.n, co.m, co.c, NB + 1)
        x_mod_p3 == mod_mersenne2_pass(x_mod_p2, co.n, co.m, co.c, 2 + c_blocks)
    IN  IF ~co.defined THEN UndefinedCt
        ELSE trim_radix_blocks_msb(x_mod_p3, x_mod_p3.blocks - NB)

mod_mersenne_fast(xc, q) ==
    LET co       == mersenne_coeff_p(q)
        c_blocks == c_blocks_of(co.c)
        a0       == scalar_right_shift(xc, co.n)
        len      == xc.blocks
        b0       == smart_sub(xc, scalar_left_shift(a0, co.n))
        a1       == trim_radix_blocks_msb(a0, len - (2 + c_blocks))
        b1       == trim_radix_blocks_msb(b0, len - NB)
        ca       == smart_scalar_mul(a1, co.c)
        x_mod_p  == add(b1, ca)
    IN  trim_radix_blocks_msb(x_mod_p, x_mod_p.blocks - NB)

mul_mod_mersenne(ea, eb, q) ==
    LET a_expanded == extend_radix_with_trivial_zero_blocks_msb(ea, NB)
    IN  mod_mersenne(smart_mul(a_expanded, eb), q)

mul_mod_mersenne2(ea, eb, q) ==
    LET a_expanded == extend_radix_with_trivial_zero_blocks_msb(ea, NB)
    IN  mod_mersenne2(smart_mul(a_expanded, eb), q)

---------------------------------------------------------------------------
(* The plaintext reference: one frame of mersenne_mod_native. *)

\* x_mod_p = a * (c + 2^m) + b  with  a = x >> n,  b = x - (a << n)
native_x_mod_p(xv, q) ==
    LET co == mersenne_coeff_p2(q)
        av == xv \div Pow2(co.n)
        bv == xv - av * Pow2(co.n)
    IN  av * (co.c + (IF co.m.some THEN Pow2(co.m.v) ELSE 0)) + bv

---------------------------------------------------------------------------
(* Inputs. *)

\* the gap precondition of the data model: 0 <= c <= 2^ceil(n/2)
GapPrecondition(q) ==
    LET co == mersenne_coeff_p(q)
    IN  0 <= co.c /\ co.c <= Pow2((co.n + 1) \div 2)

\* the range stated above mersenne_coeff_p: 0 <= c <= 2^floor(n/2)
DocumentedGap(q) ==
    LET co == mersenne_coeff_p(q)
    IN  0 <= co.c /\ co.c <= Pow2(co.n \div 2)

\* the least NB >= 1 whose NB blocks hold every value < q
RECURSIVE LeastNB(_, _)
LeastNB(q, nb) == IF Width(nb) >= q THEN nb ELSE LeastNB(q, nb + 1)
MinNB(q) == LeastNB(q, 1)

Moduli == {q \in 1..MaxP : GapPrecondition(q)} \cup {TestModulus}

Widths(q) == IF q = TestModulus THEN {TestBlocks} ELSE MinNB(q)..(MinNB(q) + ExtraNB)

\* residues < q: all of them for a small modulus, the boundary ones otherwise
ResidueInputs(q) ==
    IF q <= MaxP THEN 0..(q - 1)
    ELSE {0, 1, 2, q \div 2, q \div 2 + 1, TestY, TestX, q - 1}

\* plaintexts of nb2 blocks: all of them when narrow, else the low range, the
\* products of boundary residues and the top of the range
ReductionInputs(q, nb2) ==
    IF BitsPerBlock * nb2 <= MaxFullBits THEN 0..(Width(nb2) - 1)
    ELSE (0..(2 * q)) \cup {Width(nb2) - 1, Width(nb2) - 2, (q - 1) * (q - 1),
                            TestX * TestY}

NativeInputs(q) ==
    (1..MaxNativeX) \cup {TestX * TestY} \cup (IF q > MaxNativeX THEN {q, q + 1} ELSE {})

---------------------------------------------------------------------------
(* The state machine: a configuration is fixed, then calls are made. *)

Init ==
    /\ p \in Moduli
    /\ NB \in Widths(p)
    /\ overflow_checks \in BOOLEAN
    /\ pc = "idle"
    /\ a = 0 /\ b = 0 /\ x = 0
    /\ res = NoCt /\ res2 = NoCt
    /\ cur = 0 /\ depth = 0 /\ ret = 0
    /\ coeff = [n |-> 0, c |-> 0]
    /\ coeff2 = [n |-> 0, m |-> None, c |-> 0, defined |-> FALSE]

\* mersenne_coeff_p(q) and mersenne_coeff_p2(q) for any modulus q > 0
CallCoeff ==
    /\ pc = "idle"
    /\ \E q \in 1..MaxCoeffP :
          /\ x' = q
          /\ coeff' = mersenne_coeff_p(q)
          /\ coeff2' = mersenne_coeff_p2(q)
    /\ pc' = "coeff"
    /\ UNCHANGED <<p, NB, overflow_checks, a, b, res, res2, cur, depth, ret>>

\* mul_mod_mersenne::<NB>(enc(a), enc(b), p)
CallMulMod ==
    /\ pc = "idle"
    /\ \E av \in ResidueInputs(p), bv \in ResidueInputs(p) :
          /\ a' = av
          /\ b' = bv
          /\ res' = mul_mod_mersenne(encrypt_radix(av, NB), encrypt_radix(bv, NB), p)
    /\ pc' = "mul_mod_mersenne"
    /\ UNCHANGED <<p, NB, overflow_checks, x, res2, cur, depth, ret, coeff, coeff2>>

\* mul_mod_mersenne2::<NB> on the same two ciphertexts
CallMulMod2 ==
    /\ pc = "mul_mod_mersenne"
    /\ res2' = mul_mod_mersenne2(encrypt_radix(a, NB), encrypt_radix(b, NB), p)
    /\ pc' = "mul_mod_mersenne2"
    /\ UNCHANGED <<p, NB, overflow_checks, a, b, x, res, cur, depth, ret, coeff, coeff2>>

\* mod_mersenne::<NB>(enc(x), p), x held in NB or 2*NB blocks
CallModMersenne ==
    /\ pc = "idle"
    /\ \E len \in {NB, 2 * NB} : \E xv \in ReductionInputs(p, len) :
          /\ x' = xv
          /\ res' = mod_mersenne(encrypt_radix(xv, len), p)
    /\ pc' = "mod_mersenne"
    /\ UNCHANGED <<p, NB, overflow_checks, a, b, res2, cur, depth, ret, coeff, coeff2>>

\* mod_mersenne_fast::<NB>(enc(x), p), x < 2p held in NB + 1 blocks
CallModMersenneFast ==
    /\ pc = "idle"
    /\ \E xv \in 0..(2 * p - 1) :
          /\ x' = xv
          /\ res' = mod_mersenne_fast(encrypt_radix(xv, NB + 1), p)
    /\ pc' = "mod_mersenne_fast"
    /\ UNCHANGED <<p, NB, overflow_checks, a, b, res2, cur, depth, ret, coeff, coeff2>>

\* mersenne_mod_native(x, p): the outermost frame
CallNative ==
    /\ pc = "idle"
    /\ \E xv \in NativeInputs(p) :
          /\ x' = xv
          /\ cur' = xv
    /\ depth' = 1
    /\ pc' = "native"
    /\ UNCHANGED <<p, NB, overflow_checks, a, b, res, res2, ret, coeff, coeff2>>

\* the body of a frame whose candidate is >= p: recurse on the candidate
NativeRecurse ==
    /\ pc = "native"
    /\ mersenne_coeff_p2(p).defined
    /\ native_x_mod_p(cur, p) >= p
    /\ cur' = native_x_mod_p(cur, p)
    /\ depth' = IF depth < MaxDepth THEN depth + 1 ELSE MaxDepth
    /\ UNCHANGED <<p, NB, overflow_checks, pc, a, b, x, res, res2, ret, coeff, coeff2>>

\* the body of a frame whose candidate is < p: return it through every frame
NativeReturn ==
    /\ pc = "native"
    /\ mersenne_coeff_p2(p).defined
    /\ native_x_mod_p(cur, p) < p
    /\ ret' = native_x_mod_p(cur, p)
    /\ depth' = 0
    /\ pc' = "returned"
    /\ UNCHANGED <<p, NB, overflow_checks, a, b, x, res, res2, cur, coeff, coeff2>>

\* a frame whose coefficients are undefined
NativeUndefined ==
    /\ pc = "native"
    /\ ~mersenne_coeff_p2(p).defined
    /\ pc' = "undefined"
    /\ UNCHANGED <<p, NB, overflow_checks, a, b, x, res, res2, cur, depth, ret,
                   coeff, coeff2>>

Next ==
    \/ CallCoeff
    \/ CallMulMod
    \/ CallMulMod2
    \/ CallModMersenne
    \/ CallModMersenneFast
    \/ CallNative
    \/ NativeRecurse
    \/ NativeReturn
    \/ NativeUndefined

Spec == Init /\ [][Next]_vars

\* a running call keeps running: the recursion is never suspended
FairSpec == Spec /\ WF_vars(NativeRecurse) /\ WF_vars(NativeReturn)

---------------------------------------------------------------------------
(* Properties. *)

TwoTermDefined == mersenne_coeff_p2(p).defined

MulModReturned == pc \in {"mul_mod_mersenne", "mul_mod_mersenne2"}

\* C1, as stated: for every modulus meeting the gap precondition and every
\* wide-enough NB, mul_mod_mersenne::<NB>(a, b, p) on residues a, b < p
\* decrypts to (a * b) mod p, a value in [0, p).  Stated here for the calls
\* in which no trim amount underflows.
C1_MulModIsProductModP ==
    (MulModReturned /\ ~res.underflow)
        => (res.st = "ok" /\ decrypt_radix(res) = (a * b) % p)

\* C2, as stated: mersenne_mod_native(x, p) returns x % p for every positive
\* x and every modulus meeting the gap precondition.  Stated here for the
\* moduli whose two-term coefficients exist: every started call returns, and
\* what it returns is x % p.
C2_NativeReturnsXModP ==
    (pc = "native" /\ TwoTermDefined) ~> (pc = "returned" /\ ret = x % p)

\* C3, as stated: mod_mersenne_fast::<NB>(x, p) decrypts to x mod p for every
\* x < 2p.  Stated here for the calls in which no trim amount underflows.
C3_FastIsXModP ==
    (pc = "mod_mersenne_fast" /\ ~res.underflow)
        => (res.st = "ok" /\ decrypt_radix(res) = x % p)

\* C4, as stated: mod_mersenne::<NB> applied to an already reduced x,
\* 0 <= x < p, returns a ciphertext that decrypts to the same x.
C4_ReducedIsUnchanged ==
    (pc = "mod_mersenne" /\ x < p)
        => (res.st = "ok" /\ decrypt_radix(res) = x)

\* n = ceil(log2(q)), said without the helper that computes it
IsCeilLog2(n, q) == Pow2(n) >= q /\ (n = 0 \/ Pow2(n - 1) < q)

\* (n, c) = (ceil(log2 q), 2^n - q), and 127 gives (7, 1)
SingleTermOk(q) ==
    /\ IsCeilLog2(coeff.n, q)
    /\ coeff.c = Pow2(coeff.n) - q
    /\ (q = 127 => coeff = [n |-> 7, c |-> 1])

\* (n, None, 1) when 2^n - q = 1, else (n, Some(m), c') with
\* m = floor(log2(2^n - q)), c' = (2^n - q) - 2^m, q = 2^n - 2^m - c',
\* 0 <= c' < 2^m
TwoTermOk(q) ==
    LET gap == Pow2(coeff2.n) - q
        m   == coeff2.m.v
    IN  /\ coeff2.defined
        /\ IsCeilLog2(coeff2.n, q)
        /\ IF gap = 1
           THEN coeff2.m = None /\ coeff2.c = 1
           ELSE /\ coeff2.m.some
                /\ Pow2(m) <= gap /\ gap < Pow2(m + 1)
                /\ coeff2.c = gap - Pow2(m)
                /\ q = Pow2(coeff2.n) - Pow2(m) - coeff2.c
                /\ 0 <= coeff2.c /\ coeff2.c < Pow2(m)

\* C5, as stated: for every modulus q > 0 both derivations reconstruct q.
C5_CoeffForEveryModulus ==
    pc = "coeff" => (SingleTermOk(x) /\ TwoTermOk(x))

\* C5, amended: for every modulus q > 0 mersenne_coeff_p returns
\* (ceil(log2 q), 2^n - q); for every q > 0 that is not a power of two
\* mersenne_coeff_p2 returns the same n with (None, 1) or (Some(m), c') as
\* described, so that q = 2^n - 2^m - c' with 0 <= c' < 2^m.
C5_CoeffUnlessPowerOfTwo ==
    pc = "coeff" =>
        /\ SingleTermOk(x)
        /\ (Pow2(bigint_ilog2_ceil(x)) # x => TwoTermOk(x))

C5_Witness ==
    /\ pc = "coeff"
    /\ x = 127
    /\ coeff = [n |-> 7, c |-> 1]
    /\ coeff2 = [n |-> 7, m |-> None, c |-> 1, defined |-> TRUE]

\* C6, as stated: mul_mod_mersenne2::<NB>(a, b, p) completes and decrypts to
\* the same value as mul_mod_mersenne::<NB>(a, b, p).  Stated here for the
\* moduli whose two-term coefficients exist and the calls in which
\* mul_mod_mersenne completed without a trim underflow.
C6_TwoTermAgreesWithSingleTerm ==
    (pc = "mul_mod_mersenne2" /\ TwoTermDefined /\ res.st = "ok" /\ ~res.underflow)
        => (res2.st = "ok" /\ decrypt_radix(res2) = decrypt_radix(res))

TestScenarioNative == pc = "returned" /\ p = TestModulus /\ x = TestX * TestY

TestScenarioMulMod ==
    /\ MulModReturned
    /\ p = TestModulus /\ NB = TestBlocks
    /\ a = TestX /\ b = TestY

\* C7, as stated: for p = 251, x = 249, y = 248, mersenne_mod_native(x*y, p)
\* and the decryption of mul_mod_mersenne::<4>(x, y, p) are both 77.
C7_ScenarioIs77 ==
    /\ TestScenarioNative => ret = 77
    /\ TestScenarioMulMod => (res.st = "ok" /\ decrypt_radix(res) = 77)

\* C7, amended: for p = 251, x = 249, y = 248, mersenne_mod_native(x*y, p)
\* equals (x*y) % p equals 6, and mul_mod_mersenne::<4> on the encryptions
\* of 249 and 248 decrypts to 6.
C7_ScenarioIs6 ==
    /\ (TestX * TestY) % TestModulus = 6
    /\ TestScenarioNative => ret = 6
    /\ TestScenarioMulMod => (res.st = "ok" /\ decrypt_radix(res) = 6)

C7_Witness == TestScenarioMulMod /\ pc = "mul_mod_mersenne" /\ decrypt_radix(res) = 6

\* the three passes lose nothing and return NB blocks congruent to x
ThreePassesSuffice ==
    /\ res.st = "ok"
    /\ ~res.underflow
    /\ res.exact
    /\ res.blocks = NB
    /\ decrypt_radix(res) % p = x % p

TrimTargetsFit(q) == NB >= c_blocks_of(mersenne_coeff_p(q).c) + 1

C9_RecursionShrinksBitLength ==
    [][NativeRecurse => bits(cur') < bits(cur)]_vars

\* C10, as stated: in mod_mersenne, mod_mersenne2 and mod_mersenne_fast, for
\* every modulus meeting the gap precondition and every wide-enough NB, no
\* trim amount (current block count - target block count) is negative and
\* the returned ciphertext has exactly NB blocks.
C10_TrimAmountsNonNegative ==
    /\ (MulModReturned \/ pc \in {"mod_mersenne", "mod_mersenne_fast"})
          => (~res.underflow /\ res.blocks = NB)
    /\ (pc = "mul_mod_mersenne2" /\ TwoTermDefined)
          => (~res2.underflow /\ res2.blocks = NB)

===========================================================================
